---- MODULE Spec2Model ----
(***************************************************************************)
(* The in-memory backend of wwwfs (src/src/memory.rs) as a state machine.  *)
(*                                                                         *)
(* The heap of reference-counted cells is modelled by two arrays:          *)
(*   directories[d]  the HashMap behind DirectoryHandle d                  *)
(*   files[f]        the Vec<u8> behind FileHandle f                       *)
(* A handle is the index of its cell.  Every cell that was ever allocated  *)
(* was returned to the caller, so the caller may hold a handle to it, also *)
(* after its name was removed from its parent.                             *)
(***************************************************************************)
EXTENDS Integers, Sequences, FiniteSets, TLC

\* ---------------------------------------------------------------- bounds
MaxDirs == 3
MaxFiles == 1
MaxStreams == 2
MaxLen == 2
MaxDepth == 2

Names == {"a", "b"}
Bytes == {0, 1}

DirIds == 1..MaxDirs
\* the file cells: those of the files a caller creates and one more, for a
\* caller that creates a file again after it removed its name
MaxCells == MaxFiles + 1
FileIds == 1..MaxCells
StreamIds == 1..MaxStreams

RECURSIVE SeqsUpTo(_)
SeqsUpTo(n) ==
    IF n = 0 THEN {<<>>}
    ELSE LET shorter == SeqsUpTo(n - 1)
         IN  shorter \cup {Append(s, b) : s \in {t \in shorter : Len(t) = n - 1}, b \in Bytes}

Datas == SeqsUpTo(MaxLen)
Offsets == 0..(MaxLen + 1)

\* ------------------------------------------------------------ data model
\* crate::DirectoryEntry<DirectoryHandle, FileHandle>, plus the vacant slot
Vacant == [kind |-> "Vacant", id |-> 0]
File(f) == [kind |-> "File", id |-> f]
Directory(d) == [kind |-> "Directory", id |-> d]

\* HashMap::new()
EmptyMap == [n \in Names |-> Vacant]

\* HashMap::is_empty
is_empty(map) == \A n \in Names : map[n] = Vacant

\* HashMap::clear where HashMap::remove is meant
remove_clears(map, name) == EmptyMap

\* HashMap::remove
remove(map, name) == [map EXCEPT ![name] = Vacant]

\* HashMap entry insert
insert(map, name, entry) == [map EXCEPT ![name] = entry]

\* a slot of the stream table that holds no stream
NoStream == [cursor_pos |-> 0, stream |-> 0]

\* the error strings of memory.rs, by their fixed part
Ok == "Ok"
ErrDoesNotExist == "does not exist"
ErrIsADirectory == "is a directory"
ErrIsAFile == "is a file"
ErrNotEmpty == "is not empty"
ErrCannotSeek == "cannot seek"
Panic == "panic"

Errors == {ErrDoesNotExist, ErrIsADirectory, ErrIsAFile, ErrNotEmpty, ErrCannotSeek}

VARIABLES
    directories,  \* [DirIds -> [Names -> entry]]
    dirCount,     \* number of directory cells allocated; cell 1 is the root
    files,        \* [FileIds -> Seq(Bytes)]
    fileCount,    \* number of file cells allocated
    streams,      \* [StreamIds -> [cursor_pos, stream]]
    streamCount,  \* number of WritableFileStream values created
    last,         \* the last call: its operation, arguments and result
    written,      \* the streams that have performed a successful write
    rt,           \* observer of the sequence create_writable, write, close
    sequence,     \* the sequence of entries() the caller holds on to
    disk,         \* native backend: [Paths -> "Absent", "File" or "Dir"]
    observing,    \* whether the observers written and rt are recording
    tasks,        \* [Tasks -> the future a task has created and not completed]
    native,       \* native backend: the file of the same name on disk and its
                  \* open descriptors, given the same calls as the file in memory
    web           \* web backend: the target it is built for and what the host's
                  \* FileSystemWritableFileStream was last asked and answered

vars ==
    <<directories, dirCount, files, fileCount, streams, streamCount, last, written, rt,
      sequence, disk, observing, tasks, native, web>>

heap == <<directories, dirCount, files, fileCount, streams, streamCount>>

LiveDirs == 1..dirCount
LiveFiles == 1..fileCount
LiveStreams == 1..streamCount

\* A call record: the operation, its arguments (dir, name, flag, file, stream,
\* offset, data), what it found when it started (found: the entry the name was
\* bound to; len: the length of the buffer) and what it returned (result; ret:
\* a handle or a size; data: the bytes read; items: the elements of the
\* sequence entries() returned), and for close whether the call before it was
\* close on the same stream (again).  The calls of the native backend record
\* the path of the handle they are made on (path) and the path of the handle
\* they return (handle).
NoCall ==
    [op |-> "none", result |-> Ok, dir |-> 0, name |-> "", flag |-> FALSE,
     file |-> 0, stream |-> 0, offset |-> 0, data |-> <<>>, ret |-> 0,
     found |-> Vacant, len |-> 0, items |-> <<>>, again |-> FALSE,
     path |-> <<>>, handle |-> <<>>]

NoRt == [phase |-> 0, stream |-> 0, file |-> 0, data |-> <<>>, prior |-> <<>>]

\* native backend: the paths below the directory the root handle was made
\* from, as sequences of names; <<>> is that directory
Paths == UNION {[1..n -> Names] : n \in 0..MaxDepth}

\* the tasks of a single-threaded executor that hold futures of the file's
\* operations (the handles are Rc: all tasks run on one thread and are
\* interleaved only where a future suspends)
Tasks == {"t1", "t2"}

\* No future held.  A future holds the arguments of the call that made it
\* (op, file, stream, data) and how many suspension points of the body it has
\* passed (stage).
NoTask == [op |-> "none", file |-> 0, stream |-> 0, data |-> <<>>, stage |-> 0]

\* No sequence held.  A held sequence is the Vec entries() collected (rest:
\* what is still to be yielded) with what the caller knows of it: the directory
\* it was asked of (dir), the map of that directory when entries() returned
\* (taken) and the names yielded so far (yielded).
NoSequence == [dir |-> 0, taken |-> EmptyMap, rest |-> <<>>, yielded |-> {}]

\* the state after DirectoryHandle::default(), before any call
InitHeap ==
    /\ directories = [d \in DirIds |-> EmptyMap]
    /\ dirCount = 1
    /\ files = [f \in FileIds |-> <<>>]
    /\ fileCount = 0
    /\ streams = [s \in StreamIds |-> NoStream]
    /\ streamCount = 0
    /\ last = NoCall
    /\ written = {}
    /\ rt = NoRt
    /\ sequence = NoSequence

\* no directory of the native backend opened
NoDisk == <<>>

\* no executor
NoTasks == <<>>

\* no native file driven alongside
NoNative == [on |-> FALSE]

\* no web backend built
NoWeb == [target_pointer_width |-> 0]

\* the width of u32, the type web.rs converts the offset to
u32_BITS == 32

\* the widths usize has on the targets of rustc
PointerWidths == {32, 64}

\* An unsigned integer of w bits is the sequence of its w / LimbBits digits
\* in base 2^LimbBits, lowest first: <<l1, l2, ..>> is l1 + l2 * 2^LimbBits +
\* ..  (2^32 is not a number the model checker can hold.)
LimbBits == 16

\* the digits offsets are built from: the lowest, the next and the highest
Limbs == {0, 1, 2^LimbBits - 1}

Unsigned(w) == [1..(w \div LimbBits) -> Limbs]

\* the web backend built for a target, before any call on a stream:
\* position is what the host was last asked to seek to, answer what it said
NewWeb(w) ==
    [target_pointer_width |-> w, position |-> [i \in 1..(u32_BITS \div LimbBits) |-> 0],
     answer |-> Ok]

InitWeb ==
    /\ InitHeap
    /\ observing = FALSE
    /\ disk = NoDisk
    /\ tasks = NoTasks
    /\ native = NoNative
    /\ web \in {NewWeb(w) : w \in PointerWidths}

\* A native file driven alongside, when the handle to it is made: the bytes
\* on disk (content), the offset of the descriptor of each stream opened on
\* it (position), what the last call on it returned (result; data: the bytes
\* read) and whether every write so far, in both backends, ended at or past
\* the end the content then had (covering).
NewNative ==
    [on |-> TRUE, content |-> <<>>, position |-> [s \in StreamIds |-> 0],
     result |-> Ok, data |-> <<>>, covering |-> TRUE]

\* the in-memory backend alone, called directly
OnlyMemory == disk = NoDisk /\ tasks = NoTasks /\ native = NoNative /\ web = NoWeb

Init == InitHeap /\ observing = TRUE /\ OnlyMemory

\* the native backend on a directory that is empty
InitNative ==
    /\ InitHeap
    /\ observing = TRUE
    /\ disk = [p \in Paths |-> IF p = <<>> THEN "Dir" ELSE "Absent"]
    /\ tasks = NoTasks
    /\ native = NoNative
    /\ web = NoWeb

\* the in-memory backend called from the tasks of an executor
InitTasks ==
    /\ InitHeap
    /\ observing = FALSE
    /\ disk = NoDisk
    /\ tasks = [t \in Tasks |-> NoTask]
    /\ native = NoNative
    /\ web = NoWeb

\* the same state with the observers written and rt switched off
InitUnobserved == InitHeap /\ observing = FALSE /\ OnlyMemory

\* the same state with the native backend given every call made on the file
InitBoth ==
    /\ InitHeap
    /\ observing = FALSE
    /\ disk = NoDisk
    /\ tasks = NoTasks
    /\ native = NewNative
    /\ web = NoWeb

\* a panic unwinds the calling task: no further call is made
Running == last.result # Panic

\* native.rs create_writable_with_options: OpenOptions write, create,
\* truncate(!keep_existing_data); the descriptor starts at offset 0
native_create_writable_with_options(content, keep_existing_data) ==
    [content |-> IF keep_existing_data THEN content ELSE <<>>,
     position |-> 0, result |-> Ok]

\* native.rs FileHandle::read: open the path and read_to_end
native_read(content) == [data |-> content, result |-> Ok]

\* native.rs write_at_cursor_pos: write_all at the offset of the descriptor.
\* The bytes replace what is at offset .. offset + len(data), what follows
\* stays; a write that starts past the end leaves zero bytes in between.
native_write_at_cursor_pos(content, position, data) ==
    LET end == position + Len(data)
        n == IF data = <<>> \/ end <= Len(content) THEN Len(content) ELSE end
    IN  [content |-> [i \in 1..n |->
                         IF i > position /\ i <= end THEN data[i - position]
                         ELSE IF i <= Len(content) THEN content[i]
                         ELSE 0],
         position |-> end, result |-> Ok]

\* native.rs close: shutdown flushes; the content and the offset stay
native_close(content, position) ==
    [content |-> content, position |-> position, result |-> Ok]

\* native.rs seek: SeekFrom::Start(offset), which the system accepts for any
\* offset
native_seek(content, position, offset) == [position |-> offset, result |-> Ok]

\* the native file after it was given the call the file in memory was given
Both(call) ==
    IF ~native.on THEN native
    ELSE IF call.op = "create_writable_with_options"
    THEN LET r == native_create_writable_with_options(native.content, call.flag)
         IN  [native EXCEPT !.content = r.content, !.position[call.ret] = r.position,
                            !.result = r.result]
    ELSE IF call.op = "read"
    THEN LET r == native_read(native.content)
         IN  [native EXCEPT !.data = r.data, !.result = r.result]
    ELSE IF call.op = "write_at_cursor_pos"
    THEN LET position == native.position[call.stream]
             r == native_write_at_cursor_pos(native.content, position, call.data)
         IN  [native EXCEPT
                 !.content = r.content, !.position[call.stream] = r.position,
                 !.result = r.result,
                 !.covering =
                     /\ @
                     /\ streams[call.stream].cursor_pos + Len(call.data) >= call.len
                     /\ position + Len(call.data) >= Len(native.content)]
    ELSE IF call.op = "close"
    THEN LET r == native_close(native.content, native.position[call.stream])
         IN  [native EXCEPT !.content = r.content, !.position[call.stream] = r.position,
                            !.result = r.result]
    ELSE IF call.op = "seek"
    THEN LET r == native_seek(native.content, native.position[call.stream],
                              call.offset)
         IN  [native EXCEPT !.position[call.stream] = r.position, !.result = r.result]
    ELSE native

\* Every call sets last.  A call that repeats the last one and changes nothing
\* is a stuttering step; the same call is also made from the state that differs
\* only in last (every heap is reached with two different values of last, by
\* two different calls that change nothing), so no call escapes a property
\* that reads the heap before, the heap after and last after.
Returns(call) ==
    /\ last' = call
    /\ native' = Both(call)
    /\ native'.on => Len(native'.content) <= MaxLen
    /\ UNCHANGED <<sequence, disk, observing, tasks, web>>

\* the observer of one round trip on one file: phase 1 after
\* create_writable_with_options(keep_existing_data = false), phase 2 after one
\* write on the stream it returned, phase 3 after close on that stream.  Any
\* other stream call on the same file, and any other create_writable on it,
\* ends the observation; read, size and directory calls leave it alone.
Observe(call, file) ==
    IF ~observing
    THEN rt
    ELSE IF call.op = "create_writable_with_options"
    THEN IF call.result = Ok /\ ~call.flag
         THEN [phase |-> 1, stream |-> call.ret, file |-> file, data |-> <<>>,
               prior |-> files[file]]
         ELSE IF file = rt.file THEN NoRt ELSE rt
    ELSE IF call.op \in {"write_at_cursor_pos", "seek", "close"}
    THEN IF file # rt.file THEN rt
         ELSE IF call.stream = rt.stream /\ call.result = Ok
                 /\ call.op = "write_at_cursor_pos" /\ rt.phase = 1
         THEN [rt EXCEPT !.phase = 2, !.data = call.data]
         ELSE IF call.stream = rt.stream /\ call.result = Ok
                 /\ call.op = "close" /\ rt.phase = 2
         THEN [rt EXCEPT !.phase = 3]
         ELSE NoRt
    ELSE rt

\* ===================================================== DirectoryHandle

\* get_file_handle_with_options with the create option ignored: a vacant name
\* is always filled
get_file_handle_with_options_always_creates(directory, name, create, fresh) ==
    IF directory[name] # Vacant
    THEN [directory |-> directory,
          result |-> IF directory[name].kind = "Directory" THEN ErrIsADirectory ELSE Ok,
          entry |-> directory[name]]
    ELSE [directory |-> insert(directory, name, File(fresh)),
          result |-> Ok,
          entry |-> File(fresh)]

\* get_file_handle_with_options that hands back a new file instead of a clone
\* of the handle the name is bound to
get_file_handle_with_options_returns_copy(directory, name, create, fresh) ==
    IF directory[name] # Vacant
    THEN [directory |-> directory,
          result |-> IF directory[name].kind = "Directory" THEN ErrIsADirectory ELSE Ok,
          entry |-> IF directory[name].kind = "File" THEN File(fresh) ELSE directory[name]]
    ELSE IF create
    THEN [directory |-> insert(directory, name, File(fresh)),
          result |-> Ok,
          entry |-> File(fresh)]
    ELSE [directory |-> directory, result |-> ErrDoesNotExist, entry |-> Vacant]

\* get_file_handle_with_options that, asked to create, rebinds a name held by
\* a directory to a new file
get_file_handle_with_options_replaces_directory(directory, name, create, fresh) ==
    IF directory[name] # Vacant /\ ~(create /\ directory[name].kind = "Directory")
    THEN [directory |-> directory,
          result |-> IF directory[name].kind = "Directory" THEN ErrIsADirectory ELSE Ok,
          entry |-> directory[name]]
    ELSE IF create
    THEN [directory |-> insert(directory, name, File(fresh)),
          result |-> Ok,
          entry |-> File(fresh)]
    ELSE [directory |-> directory, result |-> ErrDoesNotExist, entry |-> Vacant]

\* get_file_handle_with_options that finds the file a removed name was bound
\* to, as a backend that keeps files by path would
get_file_handle_with_options_rebinds_orphan(directory, name, create, fresh) ==
    LET entry == directory[name]
        again == IF fresh > 1 THEN File(fresh - 1) ELSE File(fresh)
    IN  IF entry = Vacant
        THEN IF create
             THEN [directory |-> [directory EXCEPT ![name] = again],
                   entry |-> again, result |-> Ok]
             ELSE [directory |-> directory, entry |-> Vacant, result |-> ErrDoesNotExist]
        ELSE IF entry.kind = "File"
        THEN [directory |-> directory, entry |-> entry, result |-> Ok]
        ELSE [directory |-> directory, entry |-> Vacant, result |-> ErrIsADirectory]

\* memory.rs get_file_handle_with_options: the directory map after the call,
\* the result and the entry handed back; fresh is the cell FileHandle::new()
\* would allocate
get_file_handle_with_options(directory, name, create, fresh) ==
    IF directory[name] # Vacant
    THEN [directory |-> directory,
          result |-> IF directory[name].kind = "Directory" THEN ErrIsADirectory ELSE Ok,
          entry |-> directory[name]]
    ELSE IF create
    THEN [directory |-> insert(directory, name, File(fresh)),
          result |-> Ok,
          entry |-> File(fresh)]
    ELSE [directory |-> directory, result |-> ErrDoesNotExist, entry |-> Vacant]

\* get_directory_handle_with_options that, asked to create, rebinds a name
\* held by a file to a new directory
get_directory_handle_with_options_replaces_file(directory, name, create, fresh) ==
    IF directory[name] # Vacant /\ ~(create /\ directory[name].kind = "File")
    THEN [directory |-> directory,
          result |-> IF directory[name].kind = "File" THEN ErrIsAFile ELSE Ok,
          entry |-> directory[name]]
    ELSE IF create
    THEN [directory |-> insert(directory, name, Directory(fresh)),
          result |-> Ok,
          entry |-> Directory(fresh)]
    ELSE [directory |-> directory, result |-> ErrDoesNotExist, entry |-> Vacant]

\* get_directory_handle_with_options that, asked to create, binds the name to
\* a new empty directory whether or not a directory holds it
get_directory_handle_with_options_creates_anew(directory, name, create, fresh) ==
    IF directory[name].kind = "File"
    THEN [directory |-> directory, result |-> ErrIsAFile, entry |-> directory[name]]
    ELSE IF create
    THEN [directory |-> insert(directory, name, Directory(fresh)),
          result |-> Ok,
          entry |-> Directory(fresh)]
    ELSE IF directory[name] = Vacant
    THEN [directory |-> directory, result |-> ErrDoesNotExist, entry |-> Vacant]
    ELSE [directory |-> directory, result |-> Ok, entry |-> directory[name]]

\* memory.rs get_directory_handle_with_options; fresh is the cell
\* DirectoryHandle::default() would allocate
get_directory_handle_with_options(directory, name, create, fresh) ==
    IF directory[name] # Vacant
    THEN [directory |-> directory,
          result |-> IF directory[name].kind = "File" THEN ErrIsAFile ELSE Ok,
          entry |-> directory[name]]
    ELSE IF create
    THEN [directory |-> insert(directory, name, Directory(fresh)),
          result |-> Ok,
          entry |-> Directory(fresh)]
    ELSE [directory |-> directory, result |-> ErrDoesNotExist, entry |-> Vacant]

\* remove_entry that removes directories only
remove_entry_keeps_files(directory, name) ==
    [directory |-> IF directory[name].kind = "File"
                       THEN directory ELSE remove(directory, name),
     result |-> Ok]

\* memory.rs remove_entry: removes whatever the name is bound to
remove_entry(directory, name) ==
    [directory |-> remove(directory, name), result |-> Ok]

\* remove_entry_with_options without the is_empty() test
remove_entry_with_options_ignores_children(maps, self, name, recursive) ==
    [directory |-> remove(maps[self], name), result |-> Ok]

\* remove_entry_with_options with the recursive option ignored
remove_entry_with_options_ignores_recursive(maps, self, name, recursive) ==
    LET directory == maps[self]
        entry == directory[name]
    IN  IF entry.kind = "Directory" /\ ~is_empty(maps[entry.id])
        THEN [directory |-> directory, result |-> ErrNotEmpty]
        ELSE [directory |-> remove(directory, name), result |-> Ok]

\* remove_entry_with_options that asks the directory itself, whose map it has
\* mutably borrowed, whether it is empty
remove_entry_with_options_borrows_self(maps, self, name, recursive) ==
    LET directory == maps[self]
        entry == directory[name]
    IN  IF entry.kind = "Directory" /\ ~recursive
        THEN [directory |-> directory, result |-> Panic]
        ELSE [directory |-> remove(directory, name), result |-> Ok]

\* memory.rs remove_entry_with_options over the heap of maps: self's map is
\* mutably borrowed while the child's map is borrowed for is_empty(), which
\* panics (BorrowError) when the child is self
remove_entry_with_options(maps, self, name, recursive) ==
    LET directory == maps[self]
        entry == directory[name]
    IN  IF entry.kind = "Directory" /\ ~recursive
        THEN IF entry.id = self
             THEN [directory |-> directory, result |-> Panic]
             ELSE IF ~is_empty(maps[entry.id])
             THEN [directory |-> directory, result |-> ErrNotEmpty]
             ELSE [directory |-> remove(directory, name), result |-> Ok]
        ELSE [directory |-> remove(directory, name), result |-> Ok]

\* the keys of a HashMap
Keys(directory) == {n \in Names : directory[n] # Vacant}

\* the orders in which HashMap::iter may visit the keys: every key once, in an
\* order the map does not specify
Orders(directory) ==
    {o \in [1..Cardinality(Keys(directory)) -> Keys(directory)] :
        \A i, j \in DOMAIN o : o[i] = o[j] => i = j}

\* entries that leaves the directories out
entries_files_only(directory, order) ==
    [items |-> SelectSeq([i \in 1..Len(order) |->
                             [name |-> order[i], entry |-> directory[order[i]]]],
                         LAMBDA item : item.entry.kind = "File"),
     result |-> Ok]

\* memory.rs entries: the (name, entry) pairs of the map, collected into a
\* Vec in iteration order when the call is made
entries(directory, order) ==
    [items |-> [i \in 1..Len(order) |->
                   [name |-> order[i], entry |-> directory[order[i]]]],
     result |-> Ok]

\* cells: how many file cells the caller may have allocated in all
GetFileHandle(self, name, create, cells) ==
    LET fresh == fileCount + 1
        r == get_file_handle_with_options(directories[self], name, create, fresh)
        allocates == directories[self][name] = Vacant /\ create
    IN  /\ Running
        /\ allocates => fileCount < cells
        /\ directories' = [directories EXCEPT ![self] = r.directory]
        /\ fileCount' = IF allocates THEN fresh ELSE fileCount
        /\ UNCHANGED <<dirCount, files, streams, streamCount, written, rt>>
        /\ Returns([NoCall EXCEPT !.op = "get_file_handle_with_options",
                                  !.result = r.result, !.dir = self, !.name = name,
                                  !.flag = create, !.found = directories[self][name],
                                  !.ret = IF r.result = Ok THEN r.entry.id ELSE 0])

CallGetFileHandle(self, name, create) == GetFileHandle(self, name, create, MaxFiles)

CallGetDirectoryHandle(self, name, create) ==
    LET fresh == dirCount + 1
        r == get_directory_handle_with_options(directories[self], name, create, fresh)
        allocates == directories[self][name] = Vacant /\ create
    IN  /\ Running
        /\ allocates => dirCount < MaxDirs
        /\ directories' = [directories EXCEPT ![self] = r.directory]
        /\ dirCount' = IF allocates THEN fresh ELSE dirCount
        /\ UNCHANGED <<files, fileCount, streams, streamCount, written, rt>>
        /\ Returns([NoCall EXCEPT !.op = "get_directory_handle_with_options",
                                  !.result = r.result, !.dir = self, !.name = name,
                                  !.flag = create, !.found = directories[self][name],
                                  !.ret = IF r.result = Ok THEN r.entry.id ELSE 0])

CallRemoveEntry(self, name) ==
    LET r == remove_entry(directories[self], name)
    IN  /\ Running
        /\ directories' = [directories EXCEPT ![self] = r.directory]
        /\ UNCHANGED <<dirCount, files, fileCount, streams, streamCount, written, rt>>
        /\ Returns([NoCall EXCEPT !.op = "remove_entry", !.result = r.result,
                                  !.dir = self, !.name = name,
                                  !.found = directories[self][name]])

CallRemoveEntryWithOptions(self, name, recursive) ==
    LET r == remove_entry_with_options(directories, self, name, recursive)
    IN  /\ Running
        /\ directories' = [directories EXCEPT ![self] = r.directory]
        /\ UNCHANGED <<dirCount, files, fileCount, streams, streamCount, written, rt>>
        /\ Returns([NoCall EXCEPT !.op = "remove_entry_with_options",
                                  !.result = r.result, !.dir = self, !.name = name,
                                  !.flag = recursive,
                                  !.found = directories[self][name]])

\* hold: the caller keeps the sequence to consume it later, instead of
\* collecting it at once as the tests do (last.items is what it holds when
\* entries() returns, in both cases)
CallEntries(self, hold) ==
    \E order \in Orders(directories[self]) :
        LET r == entries(directories[self], order)
        IN  /\ Running
            /\ UNCHANGED <<heap, written, rt>>
            /\ last' = [NoCall EXCEPT !.op = "entries", !.result = r.result,
                                      !.dir = self, !.flag = hold, !.items = r.items]
            /\ sequence' = IF hold
                              THEN [dir |-> self, taken |-> directories[self],
                                    rest |-> r.items, yielded |-> {}]
                              ELSE sequence
            /\ UNCHANGED <<disk, observing, tasks, native, web>>

\* a sequence that keeps the names and looks each one up in the directory
\* when it is yielded
poll_next_looks_up(rest) ==
    IF rest = <<>>
        THEN [items |-> <<>>, rest |-> <<>>]
        ELSE [items |-> << [name |-> Head(rest).name,
                            entry |-> directories[sequence.dir][Head(rest).name]] >>,
              rest |-> Tail(rest)]

\* futures::stream::iter over the Vec: yields its elements in order, then None
\* (items: the element yielded, if any)
poll_next(rest) ==
    IF rest = <<>>
        THEN [items |-> <<>>, rest |-> <<>>]
        ELSE [items |-> << Head(rest) >>, rest |-> Tail(rest)]

\* the caller takes the next element of the sequence it holds
CallNext ==
    LET r == poll_next(sequence.rest)
    IN  /\ Running
        /\ sequence.dir # 0
        /\ UNCHANGED <<heap, written, rt>>
        /\ last' = [NoCall EXCEPT !.op = "next", !.dir = sequence.dir, !.items = r.items]
        /\ sequence' = [sequence EXCEPT !.rest = r.rest,
                           !.yielded = @ \cup {r.items[i].name : i \in 1..Len(r.items)}]
        /\ UNCHANGED <<disk, observing, tasks, native, web>>

\* ============================================================ FileHandle

\* create_writable_with_options that never clears the buffer
create_writable_with_options_keeps_data(self, buffer, keep_existing_data) ==
    [buffer |-> buffer,
     stream |-> [cursor_pos |-> 0, stream |-> self],
     result |-> Ok]

\* create_writable_with_options that opens in append mode when the data is
\* kept: the cursor starts at the end of the buffer
create_writable_with_options_appends(self, buffer, keep_existing_data) ==
    [buffer |-> IF ~keep_existing_data THEN <<>> ELSE buffer,
     stream |-> [cursor_pos |-> IF keep_existing_data THEN Len(buffer) ELSE 0,
                 stream |-> self],
     result |-> Ok]

\* memory.rs create_writable_with_options: the buffer after the call and the
\* stream value returned
create_writable_with_options(self, buffer, keep_existing_data) ==
    [buffer |-> IF ~keep_existing_data THEN <<>> ELSE buffer,
     stream |-> [cursor_pos |-> 0, stream |-> self],
     result |-> Ok]

\* read that starts one byte late
read_skips_first(buffer) ==
    [data |-> IF buffer = <<>> THEN <<>> ELSE Tail(buffer), result |-> Ok]

\* read that returns what the file held before the stream that is writing to
\* it was opened, until that stream is closed
read_sees_closed_streams_only(buffer) ==
    [data |-> IF rt.phase = 2 THEN rt.prior ELSE buffer, result |-> Ok]

\* memory.rs FileHandle::read: a copy of the whole buffer
read(buffer) == [data |-> buffer, result |-> Ok]

\* memory.rs WritableFileStream::len
len(buffer) == Len(buffer)

\* size that reports the position of the stream created last, when there is
\* one
size_at_cursor(buffer) ==
    [ret |-> IF streamCount = 0 THEN len(buffer) ELSE streams[streamCount].cursor_pos,
     result |-> Ok]

\* memory.rs FileHandle::size
size(buffer) == [ret |-> len(buffer), result |-> Ok]

CallCreateWritable(self, keep_existing_data) ==
    LET r == create_writable_with_options(self, files[self], keep_existing_data)
        fresh == streamCount + 1
        call == [NoCall EXCEPT !.op = "create_writable_with_options",
                               !.result = r.result, !.file = self,
                               !.flag = keep_existing_data, !.ret = fresh,
                               !.len = len(files[self])]
    IN  /\ Running
        /\ streamCount < MaxStreams
        /\ files' = [files EXCEPT ![self] = r.buffer]
        /\ streams' = [streams EXCEPT ![fresh] = r.stream]
        /\ streamCount' = fresh
        /\ rt' = Observe(call, self)
        /\ UNCHANGED <<directories, dirCount, fileCount, written>>
        /\ Returns(call)

CallRead(self) ==
    LET r == read(files[self])
    IN  /\ Running
        /\ UNCHANGED <<heap, written, rt>>
        /\ Returns([NoCall EXCEPT !.op = "read", !.result = r.result,
                                  !.file = self, !.data = r.data,
                                  !.len = len(files[self])])

CallSize(self) ==
    LET r == size(files[self])
    IN  /\ Running
        /\ UNCHANGED <<heap, written, rt>>
        /\ Returns([NoCall EXCEPT !.op = "size", !.result = r.result,
                                  !.file = self, !.ret = r.ret,
                                  !.len = len(files[self])])

\* ==================================================== WritableFileStream

\* write_at_cursor_pos as a patch in place, the way a file descriptor writes:
\* the old bytes past the written range stay
write_at_cursor_pos_keeps_tail(buffer, cursor_pos, data) ==
    IF cursor_pos > Len(buffer)
    THEN [buffer |-> buffer, cursor_pos |-> cursor_pos, result |-> Panic]
    ELSE [buffer |-> SubSeq(buffer, 1, cursor_pos) \o data
                     \o SubSeq(buffer, cursor_pos + Len(data) + 1, Len(buffer)),
          cursor_pos |-> cursor_pos + Len(data),
          result |-> Ok]

\* write_at_cursor_pos that rebuilds the buffer and leaves the cursor where
\* it was
write_at_cursor_pos_stays(buffer, cursor_pos, data) ==
    IF cursor_pos > Len(buffer)
    THEN [buffer |-> buffer, cursor_pos |-> cursor_pos, result |-> Panic]
    ELSE [buffer |-> SubSeq(buffer, 1, cursor_pos) \o data,
          cursor_pos |-> cursor_pos,
          result |-> Ok]

\* memory.rs write_at_cursor_pos: stream[0..cursor_pos] panics when cursor_pos
\* is past the end of the buffer; otherwise the buffer is rebuilt from the
\* bytes before the cursor followed by data
write_at_cursor_pos(buffer, cursor_pos, data) ==
    IF cursor_pos > Len(buffer)
    THEN [buffer |-> buffer, cursor_pos |-> cursor_pos, result |-> Panic]
    ELSE [buffer |-> SubSeq(buffer, 1, cursor_pos) \o data,
          cursor_pos |-> cursor_pos + Len(data),
          result |-> Ok]

\* close that rewinds the stream
close_rewinds(buffer, cursor_pos) ==
    [buffer |-> buffer, cursor_pos |-> 0, result |-> Ok]

\* memory.rs close: no op
close(buffer, cursor_pos) ==
    [buffer |-> buffer, cursor_pos |-> cursor_pos, result |-> Ok]

\* seek that, past the end, fails and leaves the cursor at the end
seek_clamps(buffer, cursor_pos, offset) ==
    IF offset > len(buffer)
    THEN [cursor_pos |-> len(buffer), result |-> ErrCannotSeek]
    ELSE [cursor_pos |-> offset, result |-> Ok]

\* seek that refuses the end of the buffer
seek_rejects_end(buffer, cursor_pos, offset) ==
    IF offset >= len(buffer)
    THEN [cursor_pos |-> cursor_pos, result |-> ErrCannotSeek]
    ELSE [cursor_pos |-> offset, result |-> Ok]

\* memory.rs seek
seek(buffer, cursor_pos, offset) ==
    IF offset > len(buffer)
    THEN [cursor_pos |-> cursor_pos, result |-> ErrCannotSeek]
    ELSE [cursor_pos |-> offset, result |-> Ok]

CallWrite(self, data) ==
    LET file == streams[self].stream
        r == write_at_cursor_pos(files[file], streams[self].cursor_pos, data)
        call == [NoCall EXCEPT !.op = "write_at_cursor_pos", !.result = r.result,
                               !.stream = self, !.file = file, !.data = data,
                               !.len = len(files[file])]
    IN  /\ Running
        /\ Len(r.buffer) <= MaxLen
        /\ files' = [files EXCEPT ![file] = r.buffer]
        /\ streams' = [streams EXCEPT ![self].cursor_pos = r.cursor_pos]
        /\ written' = IF observing /\ r.result = Ok THEN written \cup {self} ELSE written
        /\ rt' = Observe(call, file)
        /\ UNCHANGED <<directories, dirCount, fileCount, streamCount>>
        /\ Returns(call)

CallClose(self) ==
    LET file == streams[self].stream
        r == close(files[file], streams[self].cursor_pos)
        call == [NoCall EXCEPT !.op = "close", !.result = r.result,
                               !.stream = self, !.file = file,
                               !.len = len(files[file]),
                               !.again = (last.op = "close" /\ last.stream = self)]
    IN  /\ Running
        /\ files' = [files EXCEPT ![file] = r.buffer]
        /\ streams' = [streams EXCEPT ![self].cursor_pos = r.cursor_pos]
        /\ rt' = Observe(call, file)
        /\ UNCHANGED <<directories, dirCount, fileCount, streamCount, written>>
        /\ Returns(call)

CallSeek(self, offset) ==
    LET file == streams[self].stream
        r == seek(files[file], streams[self].cursor_pos, offset)
        call == [NoCall EXCEPT !.op = "seek", !.result = r.result,
                               !.stream = self, !.file = file, !.offset = offset,
                               !.len = len(files[file])]
    IN  /\ Running
        /\ streams' = [streams EXCEPT ![self].cursor_pos = r.cursor_pos]
        /\ rt' = Observe(call, file)
        /\ UNCHANGED <<directories, dirCount, files, fileCount, streamCount, written>>
        /\ Returns(call)

\* ========================================================== web backend

\* the error a host call is rejected with, as the caller sees it
JsError == "JsValue"

\* offset as u32 done as a checked conversion that saturates: u32::MAX for
\* what does not fit
as_u32_saturating(offset) ==
    LET n == u32_BITS \div LimbBits
    IN  IF \E i \in DOMAIN offset : i > n /\ offset[i] # 0
        THEN [i \in 1..n |-> 2^LimbBits - 1]
        ELSE [i \in 1..n |-> IF i <= Len(offset) THEN offset[i] ELSE 0]

\* web.rs seek, offset as u32: a cast between unsigned integers keeps the low
\* 32 bits and drops the rest
as_u32(offset) ==
    [i \in 1..(u32_BITS \div LimbBits) |-> IF i <= Len(offset) THEN offset[i] ELSE 0]

\* web.rs seek: seek_with_u32(offset as u32), and the host's answer handed on
\* by the two ? operators
web_seek(offset, answer) == [position |-> as_u32(offset), result |-> answer]

\* lib.rs seek: the same call with the host's answer mapped by map_io_result
lib_seek(offset, answer) == [position |-> as_u32(offset), result |-> answer]

\* seek on a stream of the web backend; the host accepts or rejects the
\* position it is given (answer)
CallWebSeek(offset, answer) ==
    LET r == web_seek(offset, answer)
    IN  /\ Running
        /\ web' = [web EXCEPT !.position = r.position, !.answer = answer]
        /\ last' = [NoCall EXCEPT !.op = "web seek", !.offset = offset,
                                  !.result = r.result]
        /\ UNCHANGED <<heap, written, rt, sequence, disk, observing, tasks, native>>

CallLibSeek(offset, answer) ==
    LET r == lib_seek(offset, answer)
    IN  /\ Running
        /\ web' = [web EXCEPT !.position = r.position, !.answer = answer]
        /\ last' = [NoCall EXCEPT !.op = "lib seek", !.offset = offset,
                                  !.result = r.result]
        /\ UNCHANGED <<heap, written, rt, sequence, disk, observing, tasks, native>>

WebNext ==
    \/ \E offset \in Unsigned(web.target_pointer_width), answer \in {Ok, JsError} :
           CallWebSeek(offset, answer)
    \/ \E offset \in Unsigned(web.target_pointer_width), answer \in {Ok, JsError} :
           CallLibSeek(offset, answer)

\* ======================================================= native backend

\* std::io::ErrorKind values the file system calls fail with
NotFound == "NotFound"
IsADirectory == "IsADirectory"
NotADirectory == "NotADirectory"
AlreadyExists == "AlreadyExists"
DirectoryNotEmpty == "DirectoryNotEmpty"
NativeErrors == {NotFound, IsADirectory, NotADirectory, AlreadyExists, DirectoryNotEmpty}

\* PathBuf::push of one name
push(path, name) == Append(path, name)

\* the paths a path goes through, the path itself last
Prefixes(path) == {SubSeq(path, 1, n) : n \in 0..Len(path)}

\* path resolution: the kind of what the path names, NotADirectory when it
\* goes through a file, NotFound when nothing is there
metadata(tree, path) ==
    IF \E q \in Prefixes(path) \ {path} : tree[q] = "File"
    THEN [kind |-> "Absent", result |-> NotADirectory]
    ELSE IF tree[path] = "Absent"
    THEN [kind |-> "Absent", result |-> NotFound]
    ELSE [kind |-> tree[path], result |-> Ok]

\* Path::exists
exists(tree, path) == metadata(tree, path).result = Ok

\* OpenOptions::new().read(true).write(true).create(create).open(path)
open(tree, path, create) ==
    LET parent == SubSeq(path, 1, Len(path) - 1)
    IN  IF metadata(tree, parent).result # Ok
        THEN [tree |-> tree, result |-> metadata(tree, parent).result]
        ELSE IF tree[parent] = "File"
        THEN [tree |-> tree, result |-> NotADirectory]
        ELSE IF tree[path] = "Dir"
        THEN [tree |-> tree, result |-> IsADirectory]
        ELSE IF tree[path] = "File"
        THEN [tree |-> tree, result |-> Ok]
        ELSE IF create
        THEN [tree |-> [tree EXCEPT ![path] = "File"], result |-> Ok]
        ELSE [tree |-> tree, result |-> NotFound]

\* fs::create_dir_all: makes the directory and every missing directory above
\* it; fails when a file is in the way
create_dir_all(tree, path) ==
    IF tree[path] = "File"
    THEN [tree |-> tree, result |-> AlreadyExists]
    ELSE IF \E q \in Prefixes(path) : tree[q] = "File"
    THEN [tree |-> tree, result |-> NotADirectory]
    ELSE [tree |-> [q \in Paths |-> IF q \in Prefixes(path) THEN "Dir" ELSE tree[q]],
          result |-> Ok]

\* fs::remove_file
remove_file(tree, path) == [tree |-> [tree EXCEPT ![path] = "Absent"], result |-> Ok]

\* fs::remove_dir: refuses a directory that has a child
remove_dir(tree, path) ==
    IF \E q \in Paths : Len(q) = Len(path) + 1 /\ path \in Prefixes(q) /\ tree[q] # "Absent"
    THEN [tree |-> tree, result |-> DirectoryNotEmpty]
    ELSE [tree |-> [tree EXCEPT ![path] = "Absent"], result |-> Ok]

\* native.rs get_file_handle_with_options
native_get_file_handle_with_options(tree, self, name, create) ==
    LET path == push(self, name)
        r == open(tree, path, create)
    IN  [tree |-> r.tree, result |-> r.result,
         handle |-> IF r.result = Ok THEN path ELSE <<>>]

\* native.rs get_directory_handle_with_options
native_get_directory_handle_with_options(tree, self, name, create) ==
    LET path == push(self, name)
    IN  IF create
        THEN LET r == create_dir_all(tree, path)
             IN  [tree |-> r.tree, result |-> r.result,
                  handle |-> IF r.result = Ok THEN path ELSE <<>>]
        ELSE IF ~exists(tree, path)
        THEN [tree |-> tree, result |-> NotFound, handle |-> <<>>]
        ELSE [tree |-> tree, result |-> Ok, handle |-> path]

\* native.rs remove_entry
native_remove_entry(tree, self, name) ==
    LET path == push(self, name)
        m == metadata(tree, path)
    IN  IF m.result # Ok
        THEN [tree |-> tree, result |-> m.result]
        ELSE IF m.kind = "File"
        THEN remove_file(tree, path)
        ELSE remove_dir(tree, path)

\* a call of the native backend: the in-memory objects are another backend's
NativeReturns(call) ==
    /\ last' = call
    /\ UNCHANGED <<heap, written, rt, sequence, observing, tasks, native, web>>

NativeGetFileHandle(self, name, create) ==
    LET r == native_get_file_handle_with_options(disk, self, name, create)
    IN  /\ Running
        /\ disk' = r.tree
        /\ NativeReturns([NoCall EXCEPT !.op = "native_get_file_handle_with_options",
                                        !.result = r.result, !.path = self,
                                        !.name = name, !.flag = create,
                                        !.handle = r.handle])

NativeGetDirectoryHandle(self, name, create) ==
    LET r == native_get_directory_handle_with_options(disk, self, name, create)
    IN  /\ Running
        /\ disk' = r.tree
        /\ NativeReturns([NoCall EXCEPT !.op = "native_get_directory_handle_with_options",
                                        !.result = r.result, !.path = self,
                                        !.name = name, !.flag = create,
                                        !.handle = r.handle])

NativeRemoveEntry(self, name) ==
    LET r == native_remove_entry(disk, self, name)
    IN  /\ Running
        /\ disk' = r.tree
        /\ NativeReturns([NoCall EXCEPT !.op = "native_remove_entry",
                                        !.result = r.result, !.path = self,
                                        !.name = name])

\* ================================================================ tasks

\* a body with a suspension point in the middle of write_at_cursor_pos
await_points_in_write(op) == IF op = "write_at_cursor_pos" THEN 1 ELSE 0

\* memory.rs: the number of .await in the body of an operation; no body has
\* one, so the first poll of its future runs the body to the end
await_points(op) == 0

\* the buffers whose RefCell a suspended future has mutably borrowed
Borrowed == {tasks[t].file : t \in {u \in Tasks : tasks[u].stage > 0}}

\* a task calls read(): the future is made, the body has not started
TaskCallRead(t, self) ==
    /\ Running
    /\ tasks[t] = NoTask
    /\ tasks' = [tasks EXCEPT ![t] = [NoTask EXCEPT !.op = "read", !.file = self]]
    /\ UNCHANGED <<heap, last, written, rt, sequence, disk, observing, native, web>>

\* a task calls write_at_cursor_pos(data): the future borrows the stream value
\* (&mut self), so no other future is on that stream value
TaskCallWrite(t, self, data) ==
    /\ Running
    /\ tasks[t] = NoTask
    /\ \A u \in Tasks : tasks[u].stream # self
    /\ tasks' = [tasks EXCEPT ![t] = [NoTask EXCEPT !.op = "write_at_cursor_pos",
                                                  !.file = streams[self].stream,
                                                  !.stream = self, !.data = data]]
    /\ UNCHANGED <<heap, last, written, rt, sequence, disk, observing, native, web>>

\* the executor polls the future of read(): stream.borrow().clone()
TaskPollRead(t) ==
    LET self == tasks[t].file
        r == read(files[self])
        result == IF self \in Borrowed THEN Panic ELSE r.result
    IN  /\ Running
        /\ tasks[t].op = "read"
        /\ tasks' = [tasks EXCEPT ![t] = NoTask]
        /\ last' = [NoCall EXCEPT !.op = "read", !.result = result, !.file = self,
                                  !.data = IF result = Ok THEN r.data ELSE <<>>,
                                  !.len = len(files[self])]
        /\ UNCHANGED <<heap, written, rt, sequence, disk, observing, native, web>>

\* the executor polls the future of write_at_cursor_pos(): the body runs from
\* where it stands to its next suspension point or to its end; the buffer is
\* assigned before a suspension point in the body and the cursor after it,
\* with the RefCell borrowed in between
TaskPollWrite(t) ==
    LET self == tasks[t].stream
        file == tasks[t].file
        r == write_at_cursor_pos(files[file], streams[self].cursor_pos, tasks[t].data)
        call == [NoCall EXCEPT !.op = "write_at_cursor_pos", !.stream = self,
                               !.file = file, !.data = tasks[t].data,
                               !.len = len(files[file])]
    IN  /\ Running
        /\ tasks[t].op = "write_at_cursor_pos"
        /\ Len(r.buffer) <= MaxLen
        /\ UNCHANGED <<directories, dirCount, fileCount, streamCount, written, rt,
                       sequence, disk, observing, native, web>>
        /\ IF tasks[t].stage = 0 /\ file \in Borrowed
           THEN /\ tasks' = [tasks EXCEPT ![t] = NoTask]
                /\ last' = [call EXCEPT !.result = Panic]
                /\ UNCHANGED <<files, streams>>
           ELSE IF tasks[t].stage = 0 /\ r.result # Ok
           THEN /\ tasks' = [tasks EXCEPT ![t] = NoTask]
                /\ last' = [call EXCEPT !.result = r.result]
                /\ UNCHANGED <<files, streams>>
           ELSE IF tasks[t].stage < await_points(tasks[t].op)
           THEN /\ tasks' = [tasks EXCEPT ![t].stage = @ + 1]
                /\ files' = [files EXCEPT ![file] = r.buffer]
                /\ UNCHANGED <<streams, last>>
           ELSE /\ tasks' = [tasks EXCEPT ![t] = NoTask]
                /\ files' = IF tasks[t].stage = 0
                                THEN [files EXCEPT ![file] = r.buffer] ELSE files
                /\ streams' = [streams EXCEPT ![self].cursor_pos =
                                   @ + Len(tasks[t].data)]
                /\ last' = [call EXCEPT !.result = Ok]

\* ========================================================= specification

DirNext ==
    \/ \E self \in LiveDirs, name \in Names, create \in BOOLEAN :
           CallGetFileHandle(self, name, create)
    \/ \E self \in LiveDirs, name \in Names, create \in BOOLEAN :
           CallGetDirectoryHandle(self, name, create)
    \/ \E self \in LiveDirs, name \in Names : CallRemoveEntry(self, name)
    \/ \E self \in LiveDirs, name \in Names, recursive \in BOOLEAN :
           CallRemoveEntryWithOptions(self, name, recursive)
    \/ \E self \in LiveDirs : CallEntries(self, FALSE)

FileNext ==
    \/ \E self \in LiveFiles, keep_existing_data \in BOOLEAN :
           CallCreateWritable(self, keep_existing_data)
    \/ \E self \in LiveFiles : CallRead(self)
    \/ \E self \in LiveFiles : CallSize(self)
    \/ \E self \in LiveStreams, data \in Datas : CallWrite(self, data)
    \/ \E self \in LiveStreams : CallClose(self)
    \/ \E self \in LiveStreams, offset \in Offsets : CallSeek(self, offset)

\* a caller that edits the root directory while it consumes a sequence of its
\* entries
SequenceNext ==
    \/ \E name \in Names, create \in BOOLEAN : CallGetFileHandle(1, name, create)
    \/ \E name \in Names, create \in BOOLEAN : CallGetDirectoryHandle(1, name, create)
    \/ \E name \in Names : CallRemoveEntry(1, name)
    \/ \E name \in Names, recursive \in BOOLEAN :
           CallRemoveEntryWithOptions(1, name, recursive)
    \/ \E hold \in BOOLEAN : CallEntries(1, hold)
    \/ CallNext

\* the handles of the native backend: the root, and every path a directory
\* handle can carry (From<PathBuf> makes a handle of any path)
DirPaths == {p \in Paths : Len(p) < MaxDepth}

NativeNext ==
    \/ \E self \in DirPaths, name \in Names, create \in BOOLEAN :
           NativeGetFileHandle(self, name, create)
    \/ \E self \in DirPaths, name \in Names, create \in BOOLEAN :
           NativeGetDirectoryHandle(self, name, create)
    \/ \E self \in DirPaths, name \in Names : NativeRemoveEntry(self, name)

\* two tasks that share the file "a", with one stream each: streams are opened
\* with calls awaited at once, reads and one-byte writes are futures polled in
\* any order
TaskNext ==
    \/ CallGetFileHandle(1, "a", TRUE)
    \/ \E self \in LiveFiles, keep_existing_data \in BOOLEAN :
           streamCount < Cardinality(Tasks) /\ CallCreateWritable(self, keep_existing_data)
    \/ \E t \in Tasks, self \in LiveFiles : TaskCallRead(t, self)
    \/ \E t \in Tasks, self \in LiveStreams, b \in Bytes : TaskCallWrite(t, self, <<b>>)
    \/ \E t \in Tasks : TaskPollRead(t)
    \/ \E t \in Tasks : TaskPollWrite(t)

OrphanNext ==
    \/ \E create \in BOOLEAN : GetFileHandle(1, "a", create, MaxCells)
    \/ CallRemoveEntry(1, "a")
    \/ \E keep_existing_data \in BOOLEAN :
           /\ streamCount < fileCount
           /\ CallCreateWritable(fileCount, keep_existing_data)
    \/ \E self \in LiveFiles : CallRead(self)
    \/ \E self \in LiveStreams, b \in Bytes : CallWrite(self, <<b>>)

CreateNext ==
    \/ \E self \in LiveDirs, create \in BOOLEAN : GetFileHandle(self, "a", create, MaxCells)
    \/ \E create \in BOOLEAN : CallGetDirectoryHandle(1, "b", create)
    \/ \E keep_existing_data \in BOOLEAN :
           /\ streamCount < fileCount
           /\ CallCreateWritable(fileCount, keep_existing_data)
    \/ \E self \in LiveStreams, b \in Bytes : CallWrite(self, <<b>>)

VisibleNext ==
    \/ CallGetFileHandle(1, "a", TRUE)
    \/ \E self \in LiveFiles, keep_existing_data \in BOOLEAN :
           CallCreateWritable(self, keep_existing_data)
    \/ \E self \in LiveFiles : CallRead(self)
    \/ \E self \in LiveFiles : CallSize(self)
    \/ \E self \in LiveStreams, data \in Datas : CallWrite(self, data)
    \/ \E self \in LiveStreams : CallClose(self)

FrameNext ==
    \/ GetFileHandle(1, "b", TRUE, MaxFiles)
    \/ \E self \in LiveDirs, name \in Names : CallGetDirectoryHandle(self, name, TRUE)
    \/ \E self \in LiveDirs, name \in Names : CallRemoveEntry(self, name)
    \/ \E self \in LiveDirs, name \in Names, recursive \in BOOLEAN :
           CallRemoveEntryWithOptions(self, name, recursive)
    \/ streamCount < fileCount /\ CallCreateWritable(fileCount, TRUE)
    \/ \E self \in LiveStreams : CallWrite(self, <<1>>)

\* the caller of SpecStreams on both backends: every call it makes on the
\* file in memory is made on the native file of the same name too
BothNext == CallGetFileHandle(1, "a", TRUE) \/ FileNext

Next == DirNext \/ FileNext \/ SequenceNext \/ NativeNext \/ TaskNext \/ BothNext \/ OrphanNext \/ CreateNext \/ VisibleNext
            \/ FrameNext \/ WebNext

Spec == Init /\ [][Next]_vars

\* a caller that only walks and edits the directory tree
SpecDirs == Init /\ [][DirNext]_vars

\* a caller that creates or looks up the file "a" in the root and otherwise
\* only works on it, through any number of streams
SpecFiles ==
    Init /\ [][(\E create \in BOOLEAN : CallGetFileHandle(1, "a", create)) \/ FileNext]_vars

\* the caller of SpecFiles with the observers written and rt switched off
SpecStreams ==
    InitUnobserved
        /\ [][(\E create \in BOOLEAN : CallGetFileHandle(1, "a", create)) \/ FileNext]_vars

SpecBoth == InitBoth /\ [][BothNext]_vars

SpecSequence == Init /\ [][SequenceNext]_vars

\* a caller that seeks on a stream of the web backend, built for a 32-bit or
\* a 64-bit target
SpecWeb == InitWeb /\ [][WebNext]_vars

\* a caller that creates the file "b" in the root and directories in every
\* directory it has a handle of, removes names, and writes to the file byte
\* by byte
SpecFrame == InitUnobserved /\ [][FrameNext]_vars

\* a caller that writes to the file "a" through any number of streams, none
\* of which it repositions, reads the file and asks its size, and closes
\* streams when it likes, with the observers on
SpecVisible == Init /\ [][VisibleNext]_vars

\* a caller that looks up and creates the file "a" in the root and in the
\* directory "b", removes nothing, and writes single bytes to the files
SpecCreate == InitUnobserved /\ [][CreateNext]_vars

\* a caller that keeps every handle it was given, removes the name "a" and
\* creates it again, opens a stream on the file it was given last and writes
\* single bytes through the streams it kept
SpecOrphans == InitUnobserved /\ [][OrphanNext]_vars

SpecTasks == InitTasks /\ [][TaskNext]_vars

\* a caller of the native backend that walks and edits the directory tree
SpecNative == InitNative /\ [][NativeNext]_vars

TypeOK ==
    /\ dirCount \in 1..MaxDirs
    /\ fileCount \in 0..MaxCells
    /\ streamCount \in 0..MaxStreams
    /\ \A f \in FileIds : Len(files[f]) <= MaxLen
    /\ written \subseteq LiveStreams

\* ================================================================ claims

\* C1: a write on a stream whose cursor c is within the buffer succeeds, leaves
\* the first c bytes, puts the written bytes right after them, ends the buffer
\* there (old bytes from c + len(bytes) on are dropped; empty bytes truncate to
\* c) and moves the cursor to c + len(bytes).
C1_WriteRebuildsAtCursor ==
    [][(last'.op = "write_at_cursor_pos"
        /\ streams[last'.stream].cursor_pos <= Len(files[last'.file]))
       => LET c == streams[last'.stream].cursor_pos
              old == files[last'.file]
              new == files'[last'.file]
              bytes == last'.data
          IN  /\ last'.result = Ok
              /\ Len(new) = c + Len(bytes)
              /\ \A i \in 1..c : new[i] = old[i]
              /\ \A i \in 1..Len(bytes) : new[c + i] = bytes[i]
              /\ streams'[last'.stream].cursor_pos = c + Len(bytes)]_vars

\* C1 witness: a write of at least one byte that ended before the old end of
\* the buffer (as "Hello", seek(0), "Hi")
C1_Witness ==
    /\ last.op = "write_at_cursor_pos"
    /\ last.result = Ok
    /\ last.data # <<>>
    /\ last.len > streams[last.stream].cursor_pos

\* C2: after create_writable_with_options(keep_existing_data = false), one
\* write of B on the stream it returned and close on that stream, read returns
\* exactly B and size returns len(B), whatever the file held before.
C2_RoundTrip ==
    rt.phase = 3
    => /\ read(files[rt.file]).data = rt.data
       /\ size(files[rt.file]).ret = Len(rt.data)
       /\ (last.op = "read" /\ last.file = rt.file) => last.data = rt.data
       /\ (last.op = "size" /\ last.file = rt.file) => last.ret = Len(rt.data)

\* C2 witness: the round trip was completed over a file that held other bytes,
\* and read was called
C2_Witness ==
    /\ rt.phase = 3
    /\ rt.data # <<>>
    /\ rt.prior # <<>>
    /\ rt.prior # rt.data
    /\ last.op = "read"
    /\ last.file = rt.file

\* C3: no call aborts, and a call that returns an error leaves every directory
\* map, every buffer and every cursor as it was.
C3_AllOrNothing ==
    [][/\ last'.result # Panic
       /\ last'.result \in Errors => heap' = heap]_vars

\* C4: the buffer is at least as long as the cursor of every stream that has
\* performed a successful write.
C4_BufferCoversWrittenCursors ==
    \A s \in written : Len(files[streams[s].stream]) >= streams[s].cursor_pos

\* C5: remove_entry and remove_entry_with_options on an absent name fail with
\* the not-found error and leave the directory unchanged.
C5_RemoveAbsentFails ==
    [][(last'.op \in {"remove_entry", "remove_entry_with_options"}
        /\ directories[last'.dir][last'.name] = Vacant)
       => /\ last'.result = ErrDoesNotExist
          /\ directories' = directories]_vars

\* C6: remove_entry_with_options(name, recursive = false) fails with the
\* not-empty error on a directory that has a child, and then the name is bound
\* to the same directory with the same children; on an empty directory or a
\* file it succeeds and the name is absent afterwards.
C6_NonRecursiveRemove ==
    [][(last'.op = "remove_entry_with_options" /\ ~last'.flag
        /\ directories[last'.dir][last'.name] # Vacant)
       => LET entry == directories[last'.dir][last'.name]
          IN  IF entry.kind = "Directory" /\ ~is_empty(directories[entry.id])
              THEN /\ last'.result = ErrNotEmpty
                   /\ directories'[last'.dir][last'.name] = entry
                   /\ directories'[entry.id] = directories[entry.id]
              ELSE /\ last'.result = Ok
                   /\ directories'[last'.dir][last'.name] = Vacant]_vars

\* C6 witness: a non-recursive removal was refused with the not-empty error
C6_Witness ==
    /\ last.op = "remove_entry_with_options"
    /\ ~last.flag
    /\ last.result = ErrNotEmpty
    /\ last.found.kind = "Directory"
    /\ ~is_empty(directories[last.found.id])

\* C7: remove_entry(name) refuses to remove a directory that has a child: it
\* returns an error and the directory stays bound to the name.
C7_RemoveEntryRefusesNonEmpty ==
    [][(last'.op = "remove_entry"
        /\ directories[last'.dir][last'.name].kind = "Directory"
        /\ ~is_empty(directories[directories[last'.dir][last'.name].id]))
       => /\ last'.result \in Errors
          /\ directories'[last'.dir][last'.name] = directories[last'.dir][last'.name]]_vars

\* C8: remove_entry_with_options(name, recursive = true) on a directory
\* succeeds whatever it contains; afterwards the name is absent from the
\* parent, and get_file_handle and get_directory_handle with create = false
\* fail on it.
C8_RecursiveRemove ==
    [][(last'.op = "remove_entry_with_options" /\ last'.flag
        /\ directories[last'.dir][last'.name].kind = "Directory")
       => LET after == directories'[last'.dir]
          IN  /\ last'.result = Ok
              /\ after[last'.name] = Vacant
              /\ get_file_handle_with_options(after, last'.name, FALSE, 0).result \in Errors
              /\ get_directory_handle_with_options(after, last'.name, FALSE, 0).result
                     \in Errors]_vars

\* C8 witness: a recursive removal succeeded on a directory that held a
\* directory that itself had a child
C8_Witness ==
    /\ last.op = "remove_entry_with_options"
    /\ last.flag
    /\ last.result = Ok
    /\ last.found.kind = "Directory"
    /\ \E n \in Names :
           /\ directories[last.found.id][n].kind = "Directory"
           /\ ~is_empty(directories[directories[last.found.id][n].id])

\* C9: get_file_handle_with_options and get_directory_handle_with_options with
\* create = false on an absent name fail with the not-found error and do not
\* add the name.
C9_LookupOfAbsentFails ==
    [][(last'.op \in {"get_file_handle_with_options", "get_directory_handle_with_options"}
        /\ ~last'.flag
        /\ directories[last'.dir][last'.name] = Vacant)
       => /\ last'.result = ErrDoesNotExist
          /\ directories'[last'.dir][last'.name] = Vacant
          /\ directories' = directories]_vars

\* C9 witness: a lookup without create failed in a directory that has another
\* name
C9_Witness ==
    /\ last.op = "get_file_handle_with_options"
    /\ ~last.flag
    /\ last.result = ErrDoesNotExist
    /\ last.found = Vacant
    /\ ~is_empty(directories[last.dir])

\* C10: get_file_handle_with_options on a name bound to a directory, and
\* get_directory_handle_with_options on a name bound to a file, fail with the
\* wrong-kind error for either value of create, and leave every directory map
\* and the entry as they were.
C10_WrongKind ==
    [][/\ (last'.op = "get_file_handle_with_options"
           /\ directories[last'.dir][last'.name].kind = "Directory")
          => /\ last'.result = ErrIsADirectory
             /\ directories' = directories
             /\ UNCHANGED <<dirCount, fileCount, files>>
       /\ (last'.op = "get_directory_handle_with_options"
           /\ directories[last'.dir][last'.name].kind = "File")
          => /\ last'.result = ErrIsAFile
             /\ directories' = directories
             /\ UNCHANGED <<dirCount, fileCount, files>>]_vars

\* C10 witness: get_directory_handle_with_options with create = true met a file
C10_Witness ==
    /\ last.op = "get_directory_handle_with_options"
    /\ last.flag
    /\ last.result = ErrIsAFile
    /\ last.found.kind = "File"
    /\ directories[last.dir][last.name] = last.found

\* C11: once get_file_handle_with_options(name, create = true) has succeeded,
\* get_file_handle_with_options(name, create = false) succeeds and returns the
\* same file: a lookup returns the cell the name is bound to, and the bytes a
\* stream writes are what read and size return through every handle that a
\* lookup gives for that file.
C11_LookupReturnsSameFile ==
    [][/\ (last'.op = "get_file_handle_with_options" /\ last'.flag /\ last'.result = Ok)
          => LET lookup == get_file_handle_with_options(
                               directories'[last'.dir], last'.name, FALSE, fileCount' + 1)
             IN  /\ lookup.result = Ok
                 /\ lookup.entry = File(last'.ret)
       /\ (last'.op = "get_file_handle_with_options" /\ ~last'.flag
           /\ directories[last'.dir][last'.name].kind = "File")
          => /\ last'.result = Ok
             /\ last'.ret = directories[last'.dir][last'.name].id
       /\ (last'.op = "write_at_cursor_pos" /\ last'.result = Ok)
          => \A d \in LiveDirs, n \in Names :
                 LET lookup == get_file_handle_with_options(directories'[d], n, FALSE, 0)
                     expected == SubSeq(files[last'.file], 1,
                                        streams[last'.stream].cursor_pos) \o last'.data
                 IN  (lookup.result = Ok /\ lookup.entry.id = streams[last'.stream].stream)
                     => /\ read(files'[lookup.entry.id]).data = expected
                        /\ size(files'[lookup.entry.id]).ret = Len(expected)]_vars

\* C11 witness: a lookup with create = false returned the file that a stream
\* opened from the first handle had written to
C11_Witness ==
    /\ last.op = "get_file_handle_with_options"
    /\ ~last.flag
    /\ last.result = Ok
    /\ files[last.ret] # <<>>
    /\ \E s \in LiveStreams : streams[s].stream = last.ret /\ streams[s].cursor_pos > 0

\* C12: create_writable_with_options(keep_existing_data = false) empties the
\* buffer when the stream is created: right after it, read through every
\* handle of the file returns the empty sequence, size returns 0 and the new
\* stream's cursor is 0.
C12_CreateClears ==
    [][(last'.op = "create_writable_with_options" /\ ~last'.flag)
       => /\ last'.result = Ok
          /\ read(files'[last'.file]).data = <<>>
          /\ size(files'[last'.file]).ret = 0
          /\ streams'[last'.ret] = [cursor_pos |-> 0, stream |-> last'.file]
          /\ \A d \in LiveDirs, n \in Names :
                 LET lookup == get_file_handle_with_options(directories'[d], n, FALSE, 0)
                 IN  (lookup.result = Ok /\ lookup.entry.id = last'.file)
                     => /\ read(files'[lookup.entry.id]).data = <<>>
                        /\ size(files'[lookup.entry.id]).ret = 0]_vars

\* C12 witness: a stream was created without keep_existing_data on a file that
\* held bytes, and no write followed yet
C12_Witness ==
    /\ last.op = "create_writable_with_options"
    /\ ~last.flag
    /\ last.len > 0
    /\ files[last.file] = <<>>

\* C13: create_writable_with_options(keep_existing_data = true) leaves the
\* buffer unchanged and returns a stream whose cursor is 0, whatever cursors
\* the earlier streams have; a write of W that follows on that stream leaves
\* the file's content equal to W.
C13_CreateKeeps ==
    [][/\ (last'.op = "create_writable_with_options" /\ last'.flag)
          => /\ last'.result = Ok
             /\ files' = files
             /\ streams'[last'.ret] = [cursor_pos |-> 0, stream |-> last'.file]
             /\ \A s \in LiveStreams : streams'[s] = streams[s]
       /\ (last.op = "create_writable_with_options" /\ last.flag
           /\ last'.op = "write_at_cursor_pos" /\ last'.stream = last.ret)
          => /\ last'.result = Ok
             /\ read(files'[last'.file]).data = last'.data]_vars

\* C13 witness: a stream was created with keep_existing_data on a file that
\* holds bytes, while an earlier stream has its cursor past 0
C13_Witness ==
    /\ last.op = "create_writable_with_options"
    /\ last.flag
    /\ files[last.file] # <<>>
    /\ streams[last.ret].cursor_pos = 0
    /\ \E s \in LiveStreams : s # last.ret /\ streams[s].cursor_pos > 0

\* C14: seek(offset) fails with the out-of-range error exactly when offset is
\* greater than the length of the buffer, and then the cursor is unchanged;
\* otherwise (offset equal to the length included) it succeeds and the cursor
\* is offset; the buffer is unchanged either way.
C14_Seek ==
    [][last'.op = "seek"
       => /\ IF last'.offset > Len(files[last'.file])
             THEN /\ last'.result = ErrCannotSeek
                  /\ streams' = streams
             ELSE /\ last'.result = Ok
                  /\ streams'[last'.stream].cursor_pos = last'.offset
          /\ files' = files]_vars

\* C14 witness: a seek to exactly the end of a buffer that holds bytes
\* succeeded
C14_Witness ==
    /\ last.op = "seek"
    /\ last.result = Ok
    /\ last.len > 0
    /\ last.offset = last.len
    /\ streams[last.stream].cursor_pos = last.offset

\* C15: entries() succeeds and yields one element per child of the directory
\* at the time of the call: the names yielded are the directory's names, none
\* twice, each with the kind of the child bound to it; an empty directory
\* yields nothing.
C15_EntriesListsChildren ==
    [][last'.op = "entries"
       => LET directory == directories[last'.dir]
              items == last'.items
              children == {n \in Names : directory[n].kind \in {"File", "Directory"}}
          IN  /\ last'.result = Ok
              /\ {items[i].name : i \in 1..Len(items)} = children
              /\ Len(items) = Cardinality(children)
              /\ \A i \in 1..Len(items) : items[i].entry.kind = directory[items[i].name].kind
              /\ is_empty(directory) => items = <<>>]_vars

\* C15 witness: entries() yielded two elements, a file and a directory
C15_Witness ==
    /\ last.op = "entries"
    /\ Len(last.items) = 2
    /\ {last.items[i].entry.kind : i \in 1..2} = {"File", "Directory"}
    /\ last.items[1].name # last.items[2].name

\* C16: the sequence entries() returned is a snapshot: whatever is created or
\* removed in the directory after entries() returned, each element the
\* sequence yields is a child the directory had when entries() returned, not
\* yielded before, with the kind it had then, and the sequence ends exactly
\* when all of those children have been yielded.
C16_SequenceIsSnapshot ==
    [][last'.op = "next"
       => LET items == last'.items
              pending == Keys(sequence.taken) \ sequence.yielded
          IN  IF pending = {}
                  THEN items = <<>>
                  ELSE /\ Len(items) = 1
                       /\ items[1].name \in pending
                       /\ items[1].entry = sequence.taken[items[1].name]]_vars

\* C16 witness: the sequence yielded a file under a name that the directory
\* has since bound to a directory, after a name created since entries()
\* returned was left out
C16_Witness ==
    /\ last.op = "next"
    /\ Len(last.items) = 1
    /\ last.items[1].entry.kind = "File"
    /\ directories[sequence.dir][last.items[1].name].kind = "Directory"
    /\ Keys(directories[sequence.dir]) \ Keys(sequence.taken) # {}

\* C17: when remove_entry(name) succeeds on a name bound to a file, the name
\* is absent from the directory's map, the one every handle of the directory
\* shares: a lookup of the name without create fails and no iteration order of
\* entries() yields it, both computed on the map left behind and as the call
\* made next.
C17_RemovedFileIsGone ==
    [][/\ (last'.op = "remove_entry" /\ last'.result = Ok /\ last'.found.kind = "File")
          => LET directory == directories'[last'.dir]
             IN  /\ get_file_handle_with_options(directory, last'.name, FALSE, 0).result
                        = ErrDoesNotExist
                 /\ \A order \in Orders(directory) :
                        \A i \in 1..Len(order) :
                            entries(directory, order).items[i].name # last'.name
       /\ (last.op = "remove_entry" /\ last.result = Ok /\ last.found.kind = "File"
           /\ last'.dir = last.dir)
          => /\ (last'.op = "get_file_handle_with_options"
                 /\ last'.name = last.name /\ ~last'.flag)
                => last'.result = ErrDoesNotExist
             /\ last'.op = "entries"
                => \A i \in 1..Len(last'.items) : last'.items[i].name # last.name]_vars

\* C17 witness: remove_entry removed a file from a directory that its parent
\* also holds a handle of, and that has another child left for entries()
C17_Witness ==
    /\ last.op = "remove_entry"
    /\ last.result = Ok
    /\ last.found.kind = "File"
    /\ last.dir # 1
    /\ \E d \in LiveDirs, n \in Names : directories[d][n] = Directory(last.dir)
    /\ Keys(directories[last.dir]) # {}

\* C18: size(file) is the length of what read(file) returns, in every state
\* and as the calls return them, whatever the cursors of the streams open on
\* the file are; a seek on any stream changes neither.
C18_SizeIsLengthOfRead ==
    [][/\ \A f \in 1..fileCount' :
              /\ size(files'[f]).result = Ok
              /\ read(files'[f]).result = Ok
              /\ size(files'[f]).ret = Len(read(files'[f]).data)
       /\ last'.op = "size"
          => /\ last'.result = Ok
             /\ last'.ret = Len(read(files[last'.file]).data)
       /\ last'.op = "read"
          => /\ last'.result = Ok
             /\ Len(last'.data) = size(files[last'.file]).ret
       /\ last'.op = "seek"
          => \A f \in LiveFiles :
                 /\ size(files'[f]) = size(files[f])
                 /\ read(files'[f]) = read(files[f])]_vars

\* C18 witness: size returned the length of a non-empty buffer while two
\* streams on the file had different cursors, neither of them at that length
C18_Witness ==
    /\ last.op = "size"
    /\ last.ret = 2
    /\ \E s1, s2 \in LiveStreams :
           /\ streams[s1].stream = last.file
           /\ streams[s2].stream = last.file
           /\ streams[s1].cursor_pos = 0
           /\ streams[s2].cursor_pos = 1

\* C19: close() on a stream succeeds, also when close() was already called on
\* it, and leaves every buffer and every stream's cursor as they were.
C19_CloseChangesNothing ==
    [][last'.op = "close"
       => /\ last'.result = Ok
          /\ files' = files
          /\ streams' = streams
          /\ UNCHANGED <<directories, dirCount, fileCount, streamCount>>]_vars

\* C19 witness: close() was called a second time on a stream whose cursor is
\* past 0, on a file that holds bytes and has another stream with another
\* cursor
C19_Witness ==
    /\ last.op = "close"
    /\ last.again
    /\ last.result = Ok
    /\ files[last.file] # <<>>
    /\ streams[last.stream].cursor_pos > 0
    /\ \E s \in LiveStreams :
           /\ streams[s].stream = last.file
           /\ streams[s].cursor_pos # streams[last.stream].cursor_pos

\* C20: in the native backend, get_directory_handle_with_options(name,
\* create = false) on a name that exists and is a file fails, and returns no
\* directory handle.
C20_NativeWrongKind ==
    [][(/\ last'.op = "native_get_directory_handle_with_options"
        /\ ~last'.flag
        /\ metadata(disk, push(last'.path, last'.name)).kind = "File")
       => /\ last'.result \in NativeErrors
          /\ last'.handle = <<>>]_vars

\* C21: a stream on which close() has been called changes neither the file's
\* buffer nor its cursor any more.  Stated for the call made right after
\* close() returned, on the same stream: a write or a seek there leaves the
\* buffers and the cursors as they were.
C21_ClosedStreamIsInert ==
    [][(/\ last.op = "close"
        /\ last.result = Ok
        /\ last'.op \in {"write_at_cursor_pos", "seek"}
        /\ last'.stream = last.stream)
       => /\ files' = files
          /\ streams' = streams]_vars

\* C22: the kind of the entry bound to a name never changes in place.  No
\* call takes a bound name to another entry; a bound name becomes vacant only
\* by a successful removal of that name in that directory; so a name that is
\* bound to a file in one state and to a directory in a later one (or the
\* reverse) was removed in between.
C22_KindChangesOnlyThroughRemoval ==
    [][\A d \in LiveDirs, n \in Names :
           directories[d][n] # Vacant
           => \/ directories'[d][n] = directories[d][n]
              \/ /\ directories'[d][n] = Vacant
                 /\ last'.op \in {"remove_entry", "remove_entry_with_options"}
                 /\ last'.result = Ok
                 /\ last'.dir = d
                 /\ last'.name = n]_vars

\* C22 witness: a name that was bound to a file when entries() returned is
\* now bound to a directory
C22_Witness ==
    \E n \in Names :
        /\ sequence.dir = 1
        /\ sequence.taken[n].kind = "File"
        /\ directories[1][n].kind = "Directory"

\* C23: operations of several tasks on one file interleave only as whole
\* operations.  Every poll of a future runs its operation to the end on the
\* state it finds: a read returns the whole buffer of that state, a write has
\* the effect and the result of write_at_cursor_pos on that state, and no
\* future is ever left inside a body.  So every behaviour is the operations
\* run one at a time in the order of their polls, and a read sees the buffer
\* as it was before a concurrent write or as it is after it.
C23_OperationsAreAtomic ==
    [][\A t \in Tasks :
           (tasks[t] # NoTask /\ tasks'[t] # tasks[t])
           => /\ tasks'[t] = NoTask
              /\ \A u \in Tasks : tasks'[u].stage = 0
              /\ tasks[t].op = "read"
                 => /\ last'.result = Ok
                    /\ last'.data = files[tasks[t].file]
                    /\ UNCHANGED <<files, streams>>
              /\ tasks[t].op = "write_at_cursor_pos"
                 => LET self == tasks[t].stream
                        file == tasks[t].file
                        r == write_at_cursor_pos(files[file], streams[self].cursor_pos,
                                                 tasks[t].data)
                    IN  /\ last'.result = r.result
                        /\ files' = [files EXCEPT ![file] = r.buffer]
                        /\ streams' = [streams EXCEPT ![self].cursor_pos = r.cursor_pos]]_vars

\* C23 witness: a read returned a non-empty buffer while the other task held
\* the future of a write to the same file that would cut that buffer short
C23_Witness ==
    /\ last.op = "read"
    /\ last.data # <<>>
    /\ \E u \in Tasks :
           /\ tasks[u].op = "write_at_cursor_pos"
           /\ tasks[u].file = last.file
           /\ streams[tasks[u].stream].cursor_pos = 0
           /\ Len(files[last.file]) > 1

\* C24: no operation of the in-memory backend borrows a map that is already
\* borrowed.  The one nested borrow, of the child's map by
\* remove_entry_with_options while it holds the parent's, never meets the
\* parent's own map: no directory is bound to a name in itself, no call has
\* aborted, and in every reachable directory structure no
\* remove_entry_with_options that could be made would abort.
C24_NoBorrowConflict ==
    /\ last.result # Panic
    /\ \A d \in LiveDirs, n \in Names :
           /\ directories[d][n] # Directory(d)
           /\ \A recursive \in BOOLEAN :
                  remove_entry_with_options(directories, d, n, recursive).result # Panic

\* C24 witness: remove_entry_with_options without recursive, called on a
\* directory below the root, borrowed the map of a child directory and
\* removed the child
C24_Witness ==
    /\ last.op = "remove_entry_with_options"
    /\ ~last.flag
    /\ last.dir # 1
    /\ last.found.kind = "Directory"
    /\ last.result = Ok

\* C25: driven by the same create_writable, seek, write_at_cursor_pos, close
\* and read calls on one file, the in-memory and the native backend return
\* the same bytes from read as long as every write so far ended at or past the
\* end of the content.
C25_BackendsAgreeWhileWritesCover ==
    (native.on /\ last.op = "read" /\ native.covering) => native.data = last.data

\* the file cells some directory binds a name to
Bound == {directories[d][n].id :
              <<d, n>> \in {x \in LiveDirs \X Names : directories[x[1]][x[2]].kind = "File"}}

C27_CreateOnExistingChangesNothing ==
    [][(/\ last'.flag
        /\ \/ last'.op = "get_file_handle_with_options" /\ last'.found.kind = "File"
           \/ /\ last'.op = "get_directory_handle_with_options"
              /\ last'.found.kind = "Directory")
       => /\ last'.result = Ok
          /\ last'.ret = last'.found.id
          /\ last'.found = directories[last'.dir][last'.name]
          /\ UNCHANGED heap]_vars

\* C27 witness: create = true was called on the name of a directory that has
\* a child, a file with bytes in it
C27_Witness ==
    /\ last.op = "get_directory_handle_with_options"
    /\ last.flag
    /\ last.found.kind = "Directory"
    /\ last.result = Ok
    /\ \E n \in Names :
           /\ directories[last.ret][n].kind = "File"
           /\ files[directories[last.ret][n].id] # <<>>

\* C28: the cursor of a stream is its own.  A call moves the cursor of a
\* stream only if it is a successful write_at_cursor_pos or seek on that very
\* stream; write, seek and close on another stream of the same file and
\* create_writable_with_options on the file leave it where it was, whatever
\* they do to the buffer, and create_writable_with_options leaves every
\* stream that existed as it was.
C28_CursorIsPrivate ==
    [][/\ \A s \in LiveStreams :
              streams'[s].cursor_pos # streams[s].cursor_pos
              => /\ last'.op \in {"write_at_cursor_pos", "seek"}
                 /\ last'.stream = s
                 /\ last'.result = Ok
       /\ \A s \in LiveStreams : streams'[s].stream = streams[s].stream
       /\ last'.op = "create_writable_with_options"
          => \A s \in LiveStreams : streams'[s] = streams[s]]_vars

\* C28 witness: a write on one stream changed the buffer two streams share
\* and moved its own cursor; the other stream's cursor, not at 0, is elsewhere
C28_Witness ==
    /\ last.op = "write_at_cursor_pos"
    /\ last.result = Ok
    /\ files[last.file] # <<>>
    /\ \E s \in LiveStreams \ {last.stream} :
           /\ streams[s].stream = last.file
           /\ streams[s].cursor_pos > 0
           /\ streams[s].cursor_pos # streams[last.stream].cursor_pos

\* C29: when write_at_cursor_pos has succeeded, the cursor of its stream is
\* the length of the buffer; a write on the same stream that is the very next
\* call succeeds and puts its bytes after everything the buffer held.
C29_WriteLeavesCursorAtEnd ==
    [][/\ (last'.op = "write_at_cursor_pos" /\ last'.result = Ok)
          => streams'[last'.stream].cursor_pos = Len(files'[last'.file])
       /\ (/\ last.op = "write_at_cursor_pos"
           /\ last.result = Ok
           /\ last'.op = "write_at_cursor_pos"
           /\ last'.stream = last.stream)
          => /\ last'.result = Ok
             /\ files'[last'.file] = files[last'.file] \o last'.data]_vars

\* C29 witness: a write has put bytes after all the bytes of a buffer that was
\* not empty, and the cursor of its stream is at the end
C29_Witness ==
    /\ last.op = "write_at_cursor_pos"
    /\ last.result = Ok
    /\ last.len > 0
    /\ last.data # <<>>
    /\ Len(files[last.file]) = last.len + Len(last.data)
    /\ streams[last.stream].cursor_pos = Len(files[last.file])

\* C30: a write is there as soon as write_at_cursor_pos has returned.  While
\* the one stream opened with keep_existing_data = false has written B and
\* has not been closed, read on the file returns B and size returns len(B);
\* close changes what read and size return on no file.
C30_WriteVisibleBeforeClose ==
    [][/\ rt'.phase = 2
          => /\ read(files'[rt'.file]).data = rt'.data
             /\ size(files'[rt'.file]).ret = Len(rt'.data)
             /\ (last'.op = "read" /\ last'.file = rt'.file) => last'.data = rt'.data
             /\ (last'.op = "size" /\ last'.file = rt'.file)
                => last'.ret = Len(rt'.data)
       /\ last'.op = "close"
          => \A f \in LiveFiles : files'[f] = files[f]]_vars

\* C30 witness: read was called after a write of bytes on a stream that has
\* not been closed, over a file that held other bytes before, and it returned
\* the bytes written
C30_Witness ==
    /\ rt.phase = 2
    /\ rt.data # <<>>
    /\ rt.prior # <<>>
    /\ rt.prior # rt.data
    /\ last.op = "read"
    /\ last.file = rt.file
    /\ last.data = rt.data

\* C31: a successful get_file_handle_with_options or
\* get_directory_handle_with_options with create = true on an absent name
\* binds that name, to an entry of the kind asked for, in the directory it is
\* called on, and a successful remove_entry or remove_entry_with_options
\* unbinds that name in the directory it is called on; every other name of
\* that directory, the map of every other directory, every buffer and every
\* stream is as it was.
C31_OneNameOfOneDirectory ==
    [][LET self == last'.dir
           name == last'.name
           creates == /\ last'.op \in {"get_file_handle_with_options",
                                       "get_directory_handle_with_options"}
                      /\ last'.flag
                      /\ directories[self][name] = Vacant
           removes == last'.op \in {"remove_entry", "remove_entry_with_options"}
       IN  ((creates \/ removes) /\ last'.result = Ok)
           => /\ creates
                 => directories'[self][name].kind =
                        IF last'.op = "get_file_handle_with_options"
                        THEN "File" ELSE "Directory"
              /\ removes => directories'[self][name] = Vacant
              /\ \A n \in Names \ {name} : directories'[self][n] = directories[self][n]
              /\ \A d \in DirIds \ {self} : directories'[d] = directories[d]
              /\ UNCHANGED <<files, streams>>]_vars

\* C31 witness: the name of a directory that has a child was removed from the
\* root, which keeps the name of a file that holds bytes; the directory
\* removed still has its child
C31_Witness ==
    /\ last.op \in {"remove_entry", "remove_entry_with_options"}
    /\ last.result = Ok
    /\ last.found.kind = "Directory"
    /\ Keys(directories[last.found.id]) # {}
    /\ \E n \in Names \ {last.name} :
           /\ directories[last.dir][n].kind = "File"
           /\ files[directories[last.dir][n].id] # <<>>

\* C32: seek of the web backend gives the host the offset converted to u32.
\* The host receives the low 32 bits of the offset, which is offset mod 2^32:
\* the offset itself when it is below 2^32 (nothing but zeros above bit 32),
\* and the wrapped value otherwise; the conversion reports no error, the
\* result of the call is what the host answered for the position it got.
C32_SeekWrapsToU32 ==
    [][last'.op \in {"web seek", "lib seek"}
       => LET offset == last'.offset
              n == u32_BITS \div LimbBits
              below == \A i \in DOMAIN offset : i > n => offset[i] = 0
              padded == [i \in 1..(64 \div LimbBits) |->
                            IF i <= Len(offset) THEN offset[i] ELSE 0]
          IN  /\ Len(web'.position) = n
              /\ \A i \in 1..n : web'.position[i] = padded[i]
              /\ below => \A i \in 1..(64 \div LimbBits) :
                              padded[i] = IF i <= n THEN web'.position[i] ELSE 0
              /\ last'.result = web'.answer]_vars

\* C32 witness: on a 64-bit target seek was called with 2^32 + 1, the host
\* was given 1 and accepted it
C32_Witness ==
    /\ last.op = "web seek"
    /\ web.target_pointer_width = 64
    /\ last.offset = <<1, 0, 1, 0>>
    /\ web.position = <<1, 0>>
    /\ last.result = Ok

====
